---- MODULE Spec2Model ----
(***************************************************************************)
(* Data-access layer of the Qubic analytics dashboard                      *)
(* (src/src/services/qubic.ts): the serial RequestQueue with its minimum   *)
(* inter-dispatch delay, the TTL response cache, fetchJson and the         *)
(* endpoint accessors built on it.                                         *)
(*                                                                         *)
(* The host is a single-threaded event loop.  One action is one run of     *)
(* synchronous code from an event (a caller invoking an accessor, a timer  *)
(* firing, the transport answering, a promise continuation) to the next    *)
(* suspension point.  Time (Date.now(), in ms) is the variable now; it is  *)
(* advanced by Tick and a timer set for delay d fires at now >= set + d.   *)
(***************************************************************************)
EXTENDS Integers, Sequences, FiniteSets, TLC

\* ---------------------------------------------------------------- bounds
MaxCalls == 3         \* accessor invocations made in one behaviour
WideCalls == 2        \* the same, when callers use every accessor
LiveCalls == 2        \* the same, in the behaviours checked for progress
MaxTime == 1250       \* the clock runs freely up to here, then only to timers
StartTime == 1000     \* Date.now() when the module is loaded

\* ------------------------------------------------------ program constants
MIN_DELAY == 500
CACHE_TTL == 15000
COOLDOWN == 5000

\* the clock advances in steps of these sizes (ms)
Steps == {250, CACHE_TTL}

\* ------------------------------------------------------------ JS values
Null == "null"
\* JavaScript truthiness of a decoded JSON payload (null is falsy)
Truthy(v) == v # Null
\* decoded JSON bodies the upstream may return
Payloads == {"data", Null}

\* ---------------------------------------------------- endpoint accessors
Accessors ==
    {"getTickInfo", "getBalance", "getOwnedAssets", "getEntityInfo",
     "getTransfersByIdentity", "getTransactionInfo", "getTransactionStatus",
     "querySmartContract", "decodeEvent"}

\* the accessors the callers of the main specification use: a GET and a POST
MainAccessors == {"getTickInfo", "querySmartContract"}

\* accessors whose first parameter is an identifier interpolated in the URL
TakesId ==
    {"getBalance", "getOwnedAssets", "getEntityInfo",
     "getTransfersByIdentity", "getTransactionInfo", "getTransactionStatus"}

\* identifiers a caller may pass ("" is the empty string)
Ids == {"", "ID1"}

\* request bodies a caller may pass to the POST accessors / "{}" for none
NoBody == "{}"
Bodies == {"B1"}

\* accessors that begin with  if (!id) throw new Error("Missing ...")
ValidatesId(acc) == acc \in {"getBalance", "getOwnedAssets"}

\* init.method of the request the accessor builds
Method(acc) ==
    IF acc \in {"querySmartContract", "decodeEvent"} THEN "POST" ELSE "GET"

\* URL template of each accessor
Path(acc) ==
    CASE acc = "getTickInfo" -> "v1/tick-info"
      [] acc = "getBalance" -> "v1/balances/"
      [] acc = "getOwnedAssets" -> "v1/assets/*/owned"
      [] acc = "getEntityInfo" -> "v1/entities/"
      [] acc = "getTransfersByIdentity" -> "v1/transfers/"
      [] acc = "getTransactionInfo" -> "v1/transaction/"
      [] acc = "getTransactionStatus" -> "v1/transaction-status/"
      [] acc = "querySmartContract" -> "v1/querySmartContract"
      [] acc = "decodeEvent" -> "events/decodeEvent"

\* the URL: the template with the identifier interpolated
Url(acc, id) == <<Path(acc), id>>

\* cacheKey = `${url}:${JSON.stringify(init?.body || {})}`
CacheKey(url, body) == <<url, body>>

\* the arguments a caller can pass to an accessor
ArgsOf(acc) == IF acc \in TakesId THEN Ids ELSE {""}
BodiesOf(acc) == IF Method(acc) = "POST" THEN Bodies ELSE {NoBody}

AllKeys ==
    {CacheKey(Url(a, i), b) : a \in Accessors, i \in Ids, b \in Bodies \cup {NoBody}}

\* -------------------------------------------------------------- cache
NoEntry == [present |-> FALSE, data |-> Null, time |-> 0]

\* (variant: the age test is  <=  in place of  <)
getCachedInclusive(c, key, t) ==
    IF c[key].present /\ t - c[key].time <= CACHE_TTL
    THEN [data |-> c[key].data, cache |-> c]
    ELSE [data |-> Null, cache |-> [c EXCEPT ![key] = NoEntry]]

\* getCached(key): the value returned and the cache it leaves behind
getCached(c, key, t) ==
    IF c[key].present /\ t - c[key].time < CACHE_TTL
    THEN [data |-> c[key].data, cache |-> c]
    ELSE [data |-> Null, cache |-> [c EXCEPT ![key] = NoEntry]]

\* setCache(key, data)
setCache(c, key, data, t) ==
    [c EXCEPT ![key] = [present |-> TRUE, data |-> data, time |-> t]]

\* (variant: the method test is missing)
IsCacheableAlways(method) == TRUE

\* the test  (!init || init.method === 'GET' || !init.method)
IsCacheable(method) == method = "GET"

\* -------------------------------------------------------- request queue
\* (variant: queue.pop() in place of queue.shift())
QueuePop(q) == [task |-> q[Len(q)], rest |-> SubSeq(q, 1, Len(q) - 1)]

\* queue.shift(): the task taken and the queue left
QueueShift(q) == [task |-> Head(q), rest |-> Tail(q)]

\* (variant: process() dispatches without waiting)
WaitForNever(t, last) == 0

\* the delay process() waits before it dispatches (0: none)
WaitFor(t, last) == IF t - last < MIN_DELAY THEN MIN_DELAY - (t - last) ELSE 0

\* (variant: enqueue calls this.process() unconditionally)
StartsProcessAlways(proc) == TRUE

\* enqueue's test  if (!this.processing) this.process()
StartsProcess(proc) == ~proc

\* (variant: enqueue's wrapper has no try/catch, so a failing body makes
\* task() reject, process() rejects at  await task()  and never recurses)
AfterTaskThrows(failed) == IF failed THEN "halted" ELSE "resume"

\* what process() leaves behind when the task it awaited has settled:
\* enqueue's try/catch turns a failure into reject(), so task() itself
\* never rejects and process() always reaches its recursive call
AfterTask(failed) == "resume"

VARIABLES
    now,              \* Date.now()
    limited,          \* upstream is currently rate limiting this client
    queue,            \* RequestQueue.queue: ids of the waiting tasks
    processing,       \* RequestQueue.processing
    lastRequestTime,  \* RequestQueue.lastRequestTime
    chains,           \* suspended activations of process()
    cache,            \* the cache map
    calls,            \* the accessor invocations made so far
    dispSeq,          \* history: task ids in dispatch order
    lastPut,          \* history: per key, the last setCache call
    lastGet,          \* history: the last getCached call
    job,              \* the invocation of an aggregate accessor in progress
    reqs,             \* history: the ticks that invocation has requested
    pure              \* the last application of an aggregation function

\* the limiter, the cache and their callers
qvars == <<now, limited, queue, processing, lastRequestTime, chains, cache,
           calls, dispSeq, lastPut, lastGet>>

\* the aggregation engine
avars == <<job, reqs, pure>>

vars == <<qvars, avars>>

\* no aggregate accessor has been invoked / no function has been applied
NoJob ==
    [pc |-> "idle", fn |-> "none", n |-> 0, arg |-> 0, T |-> 0, tick |-> 0,
     end |-> 0, stride |-> 0, got |-> <<>>, info |-> "none", doneAt |-> 0]
NoPure == [op |-> "none"]

NoGet == [valid |-> FALSE, key |-> CacheKey(Url("getTickInfo", ""), NoBody),
          at |-> 0, result |-> Null, left |-> NoEntry, put |-> NoEntry]

Init ==
    /\ now = StartTime
    /\ limited = FALSE
    /\ queue = <<>>
    /\ processing = FALSE
    /\ lastRequestTime = 0
    /\ chains = {}
    /\ cache = [k \in AllKeys |-> NoEntry]
    /\ calls = <<>>
    /\ dispSeq = <<>>
    /\ lastPut = [k \in AllKeys |-> NoEntry]
    /\ lastGet = NoGet
    /\ job = NoJob
    /\ reqs = <<>>
    /\ pure = NoPure

\* an activation of process() suspended at one of its awaits
Chain(task, phase, until) == [task |-> task, phase |-> phase, until |-> until]

\* (variant: process() returns on an empty queue without clearing the flag)
processKeepsFlag(q, last, t) ==
    IF q = <<>>
    THEN [processing |-> TRUE, queue |-> q, last |-> last,
          chain |-> {}, dispatched |-> 0]
    ELSE LET s == QueueShift(q)
             w == WaitFor(t, last)
         IN IF w > 0
            THEN [processing |-> TRUE, queue |-> s.rest, last |-> last,
                  chain |-> {Chain(s.task, "delay", t + w)}, dispatched |-> 0]
            ELSE [processing |-> TRUE, queue |-> s.rest, last |-> t,
                  chain |-> {Chain(s.task, "fetch", 0)}, dispatched |-> s.task]

\* process(): runs until its first await.  Gives the new field values, the
\* activation left suspended (if any) and the task dispatched (0: none).
process(q, last, t) ==
    IF q = <<>>
    THEN [processing |-> FALSE, queue |-> q, last |-> last,
          chain |-> {}, dispatched |-> 0]
    ELSE LET s == QueueShift(q)
             w == WaitFor(t, last)
         IN IF w > 0
            THEN [processing |-> TRUE, queue |-> s.rest, last |-> last,
                  chain |-> {Chain(s.task, "delay", t + w)}, dispatched |-> 0]
            ELSE [processing |-> TRUE, queue |-> s.rest, last |-> t,
                  chain |-> {Chain(s.task, "fetch", 0)}, dispatched |-> s.task]

\* the task body starts: it is dispatched at time t and calls fetch()
Started(cs, id, t) ==
    IF id = 0 THEN cs
    ELSE [cs EXCEPT ![id].state = "running", ![id].startedAt = t]

Dispatched(id) == IF id = 0 THEN dispSeq ELSE Append(dispSeq, id)

\* resolve(result) / reject(error) of the promise enqueue returned
Settle(cs, id, st, result, error) ==
    [cs EXCEPT ![id].state = st, ![id].result = result, ![id].error = error]

\* what an Error that is not built from a response carries
NoDetail == [status |-> 0, text |-> ""]

\* (variant: a fixed message, as the 429 branch throws)
UpstreamErrorFixed(status, text) == NoDetail

\* new Error(`Qubic RPC error ${res.status}: ${text}`)
UpstreamError(status, text) == [status |-> status, text |-> text]

\* the body of a non-2xx answer, as  res.text()  reads it
ErrorBody(status) ==
    CASE status = 404 -> "Not Found"
      [] status = 500 -> "Internal Server Error"
      [] OTHER -> ""

\* history: the answer fetch() gave to the request of a call
Answered(cs, id, status, body) ==
    [cs EXCEPT ![id].answer = [status |-> status, body |-> body]]

\* accessors that return fetchJson's promise with no try/catch around it
Propagates(acc) == acc \in {"getTickInfo", "getBalance", "getOwnedAssets"}

\* what the accessor's own promise delivers to its caller: the outcome of
\* fetchJson, or null from the catch block of the accessors that have one
Delivered(c) ==
    IF c.state = "err" /\ ~Propagates(c.acc)
    THEN [state |-> "ok", result |-> Null, error |-> "none",
          detail |-> NoDetail]
    ELSE [state |-> c.state, result |-> c.result, error |-> c.error,
          detail |-> c.detail]

\* the record of an accessor invocation: the request it builds, the state of
\* the promise it returned, and its history (answer: what fetch() answered
\* to its request; enqueued: it reached
\* queue.enqueue; armed: enqueue found the limiter idle and called
\* process(); startedAt: when its task was dispatched)
NewCall(acc, id, body) ==
    [acc |-> acc, id |-> id, method |-> Method(acc),
     key |-> CacheKey(Url(acc, id), body),
     state |-> "queued", result |-> Null, error |-> "none",
     detail |-> NoDetail, answer |-> [status |-> 0, body |-> ""],
     enqueued |-> FALSE, armed |-> FALSE, startedAt |-> 0]

\* A caller invokes an accessor.  The accessor, fetchJson, enqueue and (when
\* the limiter is idle) process() run synchronously up to the first await.
Call(acc, id, body, limit) ==
    /\ Len(calls) < limit
    /\ LET c == NewCall(acc, id, body)
           n == Len(calls) + 1
       IN IF ValidatesId(acc) /\ id = ""
          THEN \* throw new Error("Missing identityId")
               /\ calls' = Append(calls, [c EXCEPT !.state = "err",
                                    !.error = "validation"])
               /\ UNCHANGED <<queue, processing, lastRequestTime, chains,
                              cache, dispSeq>>
          ELSE LET g == getCached(cache, c.key, now)
               IN /\ cache' = g.cache
                  /\ IF Truthy(g.data) /\ IsCacheable(c.method)
                     THEN \* return cached
                          /\ calls' = Append(calls, [c EXCEPT !.state = "ok",
                                         !.result = g.data])
                          /\ UNCHANGED <<queue, processing, lastRequestTime,
                                         chains, dispSeq>>
                     ELSE \* queue.enqueue(...)
                          LET q1 == Append(queue, n)
                              cs == Append(calls, [c EXCEPT !.enqueued = TRUE,
                                          !.armed = StartsProcess(processing)])
                          IN IF StartsProcess(processing)
                             THEN LET p == process(q1, lastRequestTime, now)
                                  IN /\ queue' = p.queue
                                     /\ processing' = p.processing
                                     /\ lastRequestTime' = p.last
                                     /\ chains' = chains \cup p.chain
                                     /\ calls' = Started(cs, p.dispatched, now)
                                     /\ dispSeq' = Dispatched(p.dispatched)
                             ELSE /\ queue' = q1
                                  /\ calls' = cs
                                  /\ UNCHANGED <<processing, lastRequestTime,
                                                 chains, dispSeq>>
    /\ UNCHANGED <<now, limited, lastPut, lastGet>>
    /\ UNCHANGED avars

\* the deadlines of the timers that have not expired yet
Deadlines ==
    {ch.until : ch \in {x \in chains : x.phase \in {"delay", "cooldown"}
                                       /\ x.until > now}}

\* time passes: by one of the step sizes, or up to a timer's deadline
Tick(t) ==
    /\ \/ now < MaxTime /\ t \in {now + d : d \in Steps}
       \/ t \in Deadlines
    /\ now' = t
    /\ UNCHANGED <<limited, queue, processing, lastRequestTime, chains, cache,
                   calls, dispSeq, lastPut, lastGet>>
    /\ UNCHANGED avars

\* the upstream stops rate limiting this client
Recover ==
    /\ limited
    /\ limited' = FALSE
    /\ UNCHANGED <<now, queue, processing, lastRequestTime, chains, cache,
                   calls, dispSeq, lastPut, lastGet>>
    /\ UNCHANGED avars

\* process(): the MIN_DELAY timer fires; the task is dispatched
DelayFire(ch) ==
    /\ ch \in chains /\ ch.phase = "delay"
    /\ now >= ch.until
    /\ lastRequestTime' = now
    /\ chains' = (chains \ {ch}) \cup {Chain(ch.task, "fetch", 0)}
    /\ calls' = Started(calls, ch.task, now)
    /\ dispSeq' = Dispatched(ch.task)
    /\ UNCHANGED <<now, limited, queue, processing, cache, lastPut, lastGet>>
    /\ UNCHANGED avars

\* statuses the transport may answer with
Statuses == IF limited THEN {404, 429, 500} ELSE {200, 404, 429, 500}
\* bodies of a 200 answer: a decoded payload, or text res.json() rejects
Malformed == "malformed"

\* fetch() answers the request of the dispatched task; the task body runs on
\* to its end (resolve / reject) or to the cooldown timer
Respond(ch, status, payload) ==
    /\ ch \in chains /\ ch.phase = "fetch"
    /\ status \in Statuses
    /\ LET c == calls[ch.task]
       IN CASE status = 429 ->
                 /\ chains' = (chains \ {ch}) \cup
                                 {Chain(ch.task, "cooldown", now + COOLDOWN)}
                 /\ calls' = Answered(calls, ch.task, status, "")
                 /\ UNCHANGED <<cache, lastPut>>
            [] status = 200 /\ payload # Malformed ->
                 /\ cache' = IF IsCacheable(c.method)
                             THEN setCache(cache, c.key, payload, now)
                             ELSE cache
                 /\ lastPut' = IF IsCacheable(c.method)
                               THEN setCache(lastPut, c.key, payload, now)
                               ELSE lastPut
                 /\ calls' = Answered(Settle(calls, ch.task, "ok", payload,
                                             "none"), ch.task, status, payload)
                 /\ chains' = (chains \ {ch}) \cup
                                 {Chain(ch.task, AfterTask(FALSE), 0)}
            [] status = 200 /\ payload = Malformed ->
                 /\ calls' = Answered(Settle(calls, ch.task, "err", Null,
                                             "decode"), ch.task, status, payload)
                 /\ chains' = (chains \ {ch}) \cup
                                 {Chain(ch.task, AfterTask(TRUE), 0)}
                 /\ UNCHANGED <<cache, lastPut>>
            [] OTHER ->
                 /\ LET text == ErrorBody(status)
                        cs == Settle(calls, ch.task, "err", Null, "upstream")
                    IN calls' = Answered(
                          [cs EXCEPT ![ch.task].detail =
                                         UpstreamError(status, text)],
                          ch.task, status, text)
                 /\ chains' = (chains \ {ch}) \cup
                                 {Chain(ch.task, AfterTask(TRUE), 0)}
                 /\ UNCHANGED <<cache, lastPut>>
    /\ limited' = (limited \/ status = 429)
    /\ UNCHANGED <<now, queue, processing, lastRequestTime, dispSeq, lastGet>>
    /\ UNCHANGED avars

\* (variant: the task throws without awaiting the 5 s timer)
CooldownFireEarly(ch) ==
    /\ ch \in chains /\ ch.phase = "cooldown"
    /\ calls' = Settle(calls, ch.task, "err", Null, "ratelimit")
    /\ chains' = (chains \ {ch}) \cup {Chain(ch.task, AfterTask(TRUE), 0)}
    /\ UNCHANGED <<now, limited, queue, processing, lastRequestTime, cache,
                   dispSeq, lastPut, lastGet>>
    /\ UNCHANGED avars

\* the 5 s timer after a 429 fires: throw new Error('Rate limited ...')
CooldownFire(ch) ==
    /\ ch \in chains /\ ch.phase = "cooldown"
    /\ now >= ch.until
    /\ calls' = Settle(calls, ch.task, "err", Null, "ratelimit")
    /\ chains' = (chains \ {ch}) \cup {Chain(ch.task, AfterTask(TRUE), 0)}
    /\ UNCHANGED <<now, limited, queue, processing, lastRequestTime, cache,
                   dispSeq, lastPut, lastGet>>
    /\ UNCHANGED avars

\* process() resumes after  await task()  and calls this.process()
Resume(ch) ==
    /\ ch \in chains /\ ch.phase = "resume"
    /\ LET p == process(queue, lastRequestTime, now)
       IN /\ queue' = p.queue
          /\ processing' = p.processing
          /\ lastRequestTime' = p.last
          /\ chains' = (chains \ {ch}) \cup p.chain
          /\ calls' = Started(calls, p.dispatched, now)
          /\ dispSeq' = Dispatched(p.dispatched)
    /\ UNCHANGED <<now, limited, cache, lastPut, lastGet>>
    /\ UNCHANGED avars

Next ==
    \/ \E acc \in MainAccessors : \E id \in ArgsOf(acc) :
          \E body \in BodiesOf(acc) : Call(acc, id, body, MaxCalls)
    \/ \E t \in {now + d : d \in Steps} \cup Deadlines : Tick(t)
    \/ Recover
    \/ \E ch \in chains : DelayFire(ch)
    \/ \E ch \in chains : \E st \in {200, 429, 500} :
          \E p \in Payloads \cup {Malformed} : Respond(ch, st, p)
    \/ \E ch \in chains : CooldownFire(ch)
    \/ \E ch \in chains : Resume(ch)

Spec == Init /\ [][Next]_vars

\* Every accessor is used, by fewer callers; the callers of one behaviour
\* all use the same accessor.
WideNext ==
    \/ \E acc \in Accessors : \E id \in ArgsOf(acc) :
          \E body \in BodiesOf(acc) :
             /\ IF calls = <<>> THEN TRUE ELSE acc = calls[1].acc
             /\ Call(acc, id, body, WideCalls)
    \/ \E t \in {now + d : d \in Steps} \cup Deadlines : Tick(t)
    \/ Recover
    \/ \E ch \in chains : DelayFire(ch)
    \/ \E ch \in chains : \E st \in {200, 404, 429, 500} :
          \E p \in Payloads \cup {Malformed} : Respond(ch, st, p)
    \/ \E ch \in chains : CooldownFire(ch)
    \/ \E ch \in chains : Resume(ch)

WideSpec == Init /\ [][WideNext]_vars

\* The cache on its own: setCache and getCached applied to a few keys.
CacheKeys ==
    {CacheKey(Url("getTickInfo", ""), NoBody),
     CacheKey(Url("getBalance", "ID1"), NoBody)}

CachePut(k, p) ==
    /\ cache' = setCache(cache, k, p, now)
    /\ lastPut' = setCache(lastPut, k, p, now)
    /\ UNCHANGED <<now, limited, queue, processing, lastRequestTime, chains,
                   calls, dispSeq, lastGet>>
    /\ UNCHANGED avars

CacheGet(k) ==
    /\ LET g == getCached(cache, k, now)
       IN /\ cache' = g.cache
          /\ lastGet' = [valid |-> TRUE, key |-> k, at |-> now,
                         result |-> g.data, left |-> g.cache[k],
                         put |-> lastPut[k]]
    /\ UNCHANGED <<now, limited, queue, processing, lastRequestTime, chains,
                   calls, dispSeq, lastPut>>
    /\ UNCHANGED avars

CacheNext ==
    \/ \E k \in CacheKeys : \E p \in Payloads : CachePut(k, p)
    \/ \E k \in CacheKeys : CacheGet(k)
    \/ \E t \in {now + d : d \in Steps} : Tick(t)

CacheSpec == Init /\ [][CacheNext]_vars

\* The event loop runs every ready continuation and expired timer, the clock
\* reaches every timer's deadline, and the transport answers every request.
Fairness ==
    /\ WF_vars(\E t \in Deadlines : Tick(t))
    /\ WF_vars(\E ch \in chains : DelayFire(ch))
    /\ WF_vars(\E ch \in chains : \E st \in {200, 429, 500} :
                  \E p \in Payloads \cup {Malformed} : Respond(ch, st, p))
    /\ WF_vars(\E ch \in chains : CooldownFire(ch))
    /\ WF_vars(\E ch \in chains : Resume(ch))

\* The behaviours checked for progress.
LiveNext ==
    \/ \E acc \in MainAccessors : \E id \in ArgsOf(acc) :
          \E body \in BodiesOf(acc) : Call(acc, id, body, LiveCalls)
    \/ \E t \in {now + d : d \in Steps} \cup Deadlines : Tick(t)
    \/ Recover
    \/ \E ch \in chains : DelayFire(ch)
    \/ \E ch \in chains : \E st \in {200, 429, 500} :
          \E p \in Payloads \cup {Malformed} : Respond(ch, st, p)
    \/ \E ch \in chains : CooldownFire(ch)
    \/ \E ch \in chains : Resume(ch)

FairSpec == Init /\ [][LiveNext]_vars /\ Fairness

\* ------------------------------------------------------- transactions
\* A Transaction as the aggregation code reads it.  amount is a decimal
\* string of raw units: kind "int" with the value in amount, kind "missing"
\* for undefined / null, kind "bad" for a string BigInt() rejects.
\* moneyFlew is true, false or undefined.
Tx(src, dst, kind, amount, flew, tick) ==
    [sourceId |-> src, destId |-> dst, kind |-> kind, amount |-> amount,
     moneyFlew |-> flew, tickNumber |-> tick]

\* an entry of the WalletAggregation object
WalletEntry(id, outgoing, incoming) ==
    [wallet |-> id, outgoing |-> outgoing, incoming |-> incoming]

\* position of the key id in the object (keys keep insertion order), or 0
IndexOf(ws, id) ==
    IF \E i \in DOMAIN ws : ws[i].wallet = id
    THEN CHOOSE i \in DOMAIN ws : ws[i].wallet = id
    ELSE 0

\* (variant: the entry is initialised whether it exists or not)
EnsureAlways(ws, id) ==
    IF IndexOf(ws, id) = 0 THEN Append(ws, WalletEntry(id, 0, 0))
    ELSE [ws EXCEPT ![IndexOf(ws, id)] = WalletEntry(id, 0, 0)]

\* if (!wallets[id]) wallets[id] = { outgoing: 0n, incoming: 0n }
Ensure(ws, id) ==
    IF IndexOf(ws, id) = 0 THEN Append(ws, WalletEntry(id, 0, 0)) ELSE ws

\* (variant: the moneyFlew test is absent)
SkippedOnlyMissing(tx) == tx.kind = "missing"

\* if (tx.moneyFlew === false) return;
\* if (tx.amount === undefined || tx.amount === null) return;
Skipped(tx) == tx.moneyFlew = "false" \/ tx.kind = "missing"

\* (variant: the amount is booked as incoming of the sender and outgoing of
\* the receiver)
AddTxSwapped(ws, tx) ==
    LET w1 == Ensure(Ensure(ws, tx.sourceId), tx.destId)
        s == IndexOf(w1, tx.sourceId)
        w2 == [w1 EXCEPT ![s].incoming = @ + tx.amount]
        d == IndexOf(w2, tx.destId)
    IN [w2 EXCEPT ![d].outgoing = @ + tx.amount]

\* the body of the forEach callback of aggregateByWallet
AddTx(ws, tx) ==
    LET w1 == Ensure(Ensure(ws, tx.sourceId), tx.destId)
        s == IndexOf(w1, tx.sourceId)
        w2 == [w1 EXCEPT ![s].outgoing = @ + tx.amount]
        d == IndexOf(w2, tx.destId)
    IN [w2 EXCEPT ![d].incoming = @ + tx.amount]

\* the forEach loop from transaction i on; threw: BigInt() raised a
\* SyntaxError, which ends the call
RECURSIVE aggregateFrom(_, _, _)
aggregateFrom(txs, i, ws) ==
    IF i > Len(txs) THEN [threw |-> FALSE, wallets |-> ws]
    ELSE IF Skipped(txs[i]) THEN aggregateFrom(txs, i + 1, ws)
    ELSE IF txs[i].kind = "bad" THEN [threw |-> TRUE, wallets |-> <<>>]
    ELSE aggregateFrom(txs, i + 1, AddTx(ws, txs[i]))

aggregateByWallet(txs) == aggregateFrom(txs, 1, <<>>)

\* ------------------------------------------------------- whale ranking
\* Array.prototype.slice(start, end) for integer arguments
Slice(s, start, end) ==
    LET n == Len(s)
        a == IF start < 0 THEN (IF n + start < 0 THEN 0 ELSE n + start)
             ELSE (IF start > n THEN n ELSE start)
        b == IF end < 0 THEN (IF n + end < 0 THEN 0 ELSE n + end)
             ELSE (IF end > n THEN n ELSE end)
    IN IF a >= b THEN <<>> ELSE SubSeq(s, a + 1, b)

\* A JavaScript number holding a QU value is kept as a fixed-point value in
\* thousandths of a QU, or is NaN; the fixed-point value is exact for the
\* amounts below 2^53 used here.
NaN == [nan |-> TRUE, milli |-> 0]
\* Number(x) / 1000 for a raw amount x:
ToQU(raw) == [nan |-> FALSE, milli |-> raw]
\* the number literal n
Qu(n) == [nan |-> FALSE, milli |-> n * 1000]
\* a + b, a - b, Math.abs(a), a > b (false when either is NaN), a / 2 (exact
\* for a whole number of QU), a * 2, Math.floor(a)
QuPlus(a, b) == IF a.nan \/ b.nan THEN NaN ELSE ToQU(a.milli + b.milli)
QuMinus(a, b) == IF a.nan \/ b.nan THEN NaN ELSE ToQU(a.milli - b.milli)
QuAbs(a) == IF a.nan THEN NaN ELSE ToQU(IF a.milli < 0 THEN -a.milli ELSE a.milli)
QuGt(a, b) == ~a.nan /\ ~b.nan /\ a.milli > b.milli
QuHalf(a) == IF a.nan THEN NaN ELSE ToQU(a.milli \div 2)
QuDouble(a) == IF a.nan THEN NaN ELSE ToQU(a.milli * 2)
QuFloor(a) == IF a.nan THEN NaN ELSE ToQU((a.milli \div 1000) * 1000)

\* the .map callback: one whale record for one wallet entry
WhaleOf(e) ==
    [wallet |-> <<"id", e.wallet>>, buys |-> ToQU(e.incoming),
     sells |-> ToQU(e.outgoing),
     net |-> QuMinus(ToQU(e.incoming), ToQU(e.outgoing))]

\* (variant: ranked by net flow)
VolumeNet(w) == QuAbs(w.net)

\* Math.abs(a.buys + a.sells)
Volume(w) == QuAbs(QuPlus(w.buys, w.sells))

\* Array.prototype.sort with comparator volumeB - volumeA (the sort is
\* stable): x goes behind every record whose volume is not smaller
InsertByVolume(sorted, x) ==
    LET k == Cardinality({i \in DOMAIN sorted :
                             ~QuGt(Volume(x), Volume(sorted[i]))})
    IN SubSeq(sorted, 1, k) \o <<x>> \o SubSeq(sorted, k + 1, Len(sorted))

RECURSIVE SortByVolume(_, _, _)
SortByVolume(ws, i, sorted) ==
    IF i > Len(ws) THEN sorted
    ELSE SortByVolume(ws, i + 1, InsertByVolume(sorted, ws[i]))

\* wallet: `Whale #${idx + 1}`
Relabel(ws) == [i \in DOMAIN ws |-> [ws[i] EXCEPT !.wallet = <<"Whale #", i>>]]

identifyWhales(walletAggregation, topN) ==
    LET whalesArray ==
            Slice(SortByVolume([i \in DOMAIN walletAggregation |->
                                   WhaleOf(walletAggregation[i])], 1, <<>>),
                  0, topN)
    IN Relabel(whalesArray)

\* ------------------------------------------- the functions on their own
\* inputs of the aggregation functions
MaxTxs == 3
MaxWallets == 3
MaxTopN == 4
DEFAULT_TOP_N == 6

Wallets == {"A", "B"}

\* the transactions tried, over every amount and moneyFlew shape
TxInputs ==
    LET TxShapes ==
          {[kind |-> "int", amount |-> 500, moneyFlew |-> "true"],
           [kind |-> "int", amount |-> 200, moneyFlew |-> "undefined"],
           [kind |-> "int", amount |-> 1000, moneyFlew |-> "false"],
           [kind |-> "missing", amount |-> 0, moneyFlew |-> "true"],
           [kind |-> "bad", amount |-> 0, moneyFlew |-> "true"]}
    IN {Tx(s, d, sh.kind, sh.amount, sh.moneyFlew, 0) :
          s \in Wallets, d \in Wallets, sh \in TxShapes}

\* the sequences over S of length at most n
SeqsUpTo(S, n) == UNION {[1..k -> S] : k \in 0..n}

\* the transaction list of the wallet-aggregation scenario
Scenario ==
    <<Tx("A", "B", "int", 500, "true", 0), Tx("B", "C", "int", 200, "true", 0),
      Tx("C", "A", "int", 1000, "false", 0)>>

\* totals of the wallet aggregates tried
Totals == {0, 1000, 2500}

WalletAggregates ==
    LET WalletList == <<"A", "B", "C", "D", "E">>
    IN UNION {{[i \in 1..k |->
                  WalletEntry(WalletList[i], f[i][1], f[i][2])] :
                 f \in [1..k -> Totals \X Totals]} : k \in 0..MaxWallets}

\* aggregateByWallet is applied to a transaction list
ApplyAggregate(txs) ==
    /\ pure = NoPure
    /\ pure' = [op |-> "aggregateByWallet", txs |-> txs,
                out |-> aggregateByWallet(txs)]
    /\ UNCHANGED <<qvars, job, reqs>>

\* identifyWhales is applied to a wallet aggregate
ApplyWhales(ws, topN) ==
    /\ pure = NoPure
    /\ pure' = [op |-> "identifyWhales", wallets |-> ws, topN |-> topN,
                out |-> identifyWhales(ws, topN)]
    /\ UNCHANGED <<qvars, job, reqs>>

\* one application per behaviour
WalletNext ==
    /\ pure = NoPure
    /\ \E txs \in SeqsUpTo(TxInputs, MaxTxs) \cup {Scenario} :
          ApplyAggregate(txs)

WalletSpec == Init /\ [][WalletNext]_vars

WhaleNext ==
    /\ pure = NoPure
    /\ \E ws \in WalletAggregates :
          \E n \in (0..MaxTopN) \cup {DEFAULT_TOP_N} : ApplyWhales(ws, n)

WhaleSpec == Init /\ [][WhaleNext]_vars

\* --------------------------------------------------------------- alerts
DEFAULT_THRESHOLD == 1000
ALERT_CAP == 8
NEW_WALLET_ID == 100

\* Number(tx.amount) / 1000: NaN for an absent amount and for a string that
\* is no number
AmountQU(tx) == IF tx.kind = "int" THEN ToQU(tx.amount) ELSE NaN

\* (variant: High from twice the threshold on)
ImpactInclusive(amount, th) ==
    IF ~QuGt(QuDouble(th), amount) THEN "High" ELSE "Medium"

\* impact: amount > largeThreshold * 2 ? 'High' : 'Medium'
Impact(amount, th) == IF QuGt(amount, QuDouble(th)) THEN "High" ELSE "Medium"

\* the alert pushed for a large transaction; idx counts from 0
WhaleAlert(tx, idx, amount, th) ==
    [id |-> idx + 1,
     type |-> IF QuGt(amount, Qu(0)) THEN "whale_buy" ELSE "whale_sell",
     message |-> <<tx.sourceId, "transferred", QuAbs(QuFloor(amount))>>,
     impact |-> Impact(amount, th),
     amount |-> [present |-> TRUE, value |-> amount]]

\* the alert pushed for a wallet seen for the first time
NewWalletAlert(tx, idx, amount) ==
    [id |-> idx + NEW_WALLET_ID,
     type |-> "new_wallet",
     message |-> <<"", "New wallet purchased", QuFloor(amount)>>,
     impact |-> "Medium",
     amount |-> [present |-> FALSE, value |-> NaN]]

\* (variant: the wallet is remembered whatever the amount)
SeenAfterAlways(seen, src, isNew) == seen \cup {src}

\* seenWallets after the new-wallet test of a transaction of src
SeenAfter(seen, src, isNew) == IF isNew THEN seen \cup {src} ELSE seen

\* the forEach callback of getRecentAlerts, on alerts and seenWallets
AlertStep(st, tx, idx, th) ==
    IF tx.moneyFlew = "false" THEN st
    ELSE LET amount == AmountQU(tx)
             large == QuGt(amount, th)
             isNew == tx.sourceId \notin st.seen /\ QuGt(amount, QuHalf(th))
             a1 == IF large
                   THEN Append(st.alerts, WhaleAlert(tx, idx, amount, th))
                   ELSE st.alerts
             a2 == IF isNew THEN Append(a1, NewWalletAlert(tx, idx, amount))
                   ELSE a1
         IN [alerts |-> a2, seen |-> SeenAfter(st.seen, tx.sourceId, isNew)]

\* transactions.forEach over the transactions i .. j (counted from 1), in
\* ascending order: the first half, then the second half (the test on the
\* first half makes it be evaluated before the second half is entered)
RECURSIVE ScanFrom(_, _, _, _, _)
ScanFrom(txs, i, j, st, th) ==
    IF i > j THEN st
    ELSE IF i = j THEN AlertStep(st, txs[i], i - 1, th)
    ELSE LET first == ScanFrom(txs, i, (i + j) \div 2, st, th)
         IN IF Len(first.alerts) >= 0
            THEN ScanFrom(txs, (i + j) \div 2 + 1, j, first, th)
            ELSE first

\* alerts when the forEach of getRecentAlerts has ended
GenerateAlerts(txs, th) ==
    ScanFrom(txs, 1, Len(txs), [alerts |-> <<>>, seen |-> {}], th).alerts

\* (variant: the last alerts are kept)
CapLast(alerts) == Slice(alerts, -ALERT_CAP, Len(alerts))

\* alerts.slice(0, 8)
Cap(alerts) == Slice(alerts, 0, ALERT_CAP)

\* inputs of the alert scan
MaxAlertTxs == 3

AlertTxs ==
    LET AlertShapes ==
          {[kind |-> "int", amount |-> a, moneyFlew |-> "true"] :
              a \in {500000, 800000, 1000000, 1200000, 2000000, 2500000}}
          \cup {[kind |-> "int", amount |-> 2500000, moneyFlew |-> "false"],
                [kind |-> "bad", amount |-> 0, moneyFlew |-> "true"]}
    IN {Tx(s, "Z", sh.kind, sh.amount, sh.moneyFlew, 0) :
          s \in Wallets, sh \in AlertShapes}

\* the scan of getRecentAlerts is applied to a transaction list
ApplyAlerts(txs, th) ==
    /\ pure = NoPure
    /\ pure' = [op |-> "alerts", txs |-> txs, th |-> th,
                alerts |-> GenerateAlerts(txs, Qu(th)),
                out |-> Cap(GenerateAlerts(txs, Qu(th)))]
    /\ UNCHANGED <<qvars, job, reqs>>

\* short windows over every transaction shape, and windows of about a
\* hundred transactions: a transfer of 800 QU by A, small transfers by B and
\* a transfer of 2500 QU by A at the end
AlertNext ==
    /\ pure = NoPure
    /\ LET Busy(k) ==
               [i \in 1..k |->
                  IF i = 1 THEN Tx("A", "Z", "int", 800000, "true", 0)
                  ELSE IF i = k THEN Tx("A", "Z", "int", 2500000, "true", 0)
                  ELSE Tx("B", "Z", "int", 100000, "true", 0)]
       IN \E txs \in SeqsUpTo(AlertTxs, MaxAlertTxs)
                      \cup {Busy(k) : k \in {99, 100, 101}} :
             \E th \in {400, DEFAULT_THRESHOLD} : ApplyAlerts(txs, th)

AlertSpec == Init /\ [][AlertNext]_vars

\* -------------------------------------------------- aggregate accessors
LAG == 100
HEATMAP_STEP == 5
MS_PER_TICK == 12000
MS_PER_HOUR == 3600000
MS_PER_DAY == 86400000
TRADE_SLICE == 50
\* BigInt(100000000000) and BigInt(10000000000), in thousands of raw units
BUY_ABOVE == 100000000
SELL_ABOVE == 10000000

AggregateAccessors ==
    {"getWhaleActivity", "getRecentAlerts", "getHolderGrowth",
     "getTokenDistribution", "getTransactionFlowHeatmap",
     "getTokenTradingHistory"}

\* the accessors that read their window with getTransactionsByTickRange
RangeAccessors == {"getWhaleActivity", "getRecentAlerts"}

Max(a, b) == IF a > b THEN a ELSE b

\* (variant: the window reaches one tick further back)
SafeWindowLong(T, n) ==
    [start |-> Max(0, (T - LAG) - n), end |-> T - LAG]

\* safeTick = currentTick - 100;
\* startTick = Math.max(0, safeTick - ticksBack + 1)
SafeWindow(T, n) ==
    [start |-> Max(0, (T - LAG) - n + 1), end |-> T - LAG]

\* fetchTransactions of RecentTransactionsTable with the tick of the tick
\* context: the range it hands to getTransactionsByTickRange, and whether it
\* returns before the request
fetchTransactions(currentTick) ==
    LET safeTick == currentTick - 100
        startTick == Max(0, safeTick - 10)
        endTick == Max(0, safeTick)
    IN [start |-> startTick, end |-> endTick, stride |-> 1,
        skip |-> currentTick = 0 \/ startTick >= endTick]

\* the first tick, the last tick and the step of the loop of each accessor,
\* for current tick T, window n and (getHolderGrowth) sample interval arg
Window(fn, T, n, arg) ==
    CASE fn \in RangeAccessors ->
            [start |-> SafeWindow(T, n).start, end |-> SafeWindow(T, n).end,
             stride |-> 1]
      [] fn = "getHolderGrowth" ->
            [start |-> Max(0, T - n), end |-> T, stride |-> arg]
      [] fn = "getTokenDistribution" ->
            [start |-> Max(0, T - n), end |-> T, stride |-> 1]
      [] fn = "getTransactionFlowHeatmap" ->
            [start |-> Max(0, T - n), end |-> T, stride |-> HEATMAP_STEP]
      [] fn = "getTokenTradingHistory" ->
            [start |-> (T - LAG) - 1, end |-> T - LAG, stride |-> 1]
      [] fn = "fetchTransactions" ->
            [start |-> fetchTransactions(T).start,
             end |-> fetchTransactions(T).end, stride |-> 1]

\* the transactions the upstream holds for a tick (amounts in raw units:
\* 2.5, 0.6, 1.2 and 3 QU, and one amount that is no number)
Ledger(t) ==
    CASE t % 4 = 0 -> <<Tx("A", "B", "int", 2500, "true", t),
                        Tx("B", "C", "int", 600, "true", t)>>
      [] t % 4 = 1 -> <<Tx("C", "A", "int", 1200, "true", t)>>
      [] t % 4 = 2 -> <<Tx("A", "C", "int", 3000, "true", t)>>
      [] OTHER -> <<Tx("B", "A", "bad", 0, "true", t)>>

\* the .map callback of getTransactionsByTickRange
Approved(tx) == [tx EXCEPT !.moneyFlew = "true"]

\* allTransactions of getTransactionsByTickRange, from the i-th requested
\* tick on; got[i] tells whether the request for ticks[i] was answered
RECURSIVE RangeFrom(_, _, _)
RangeFrom(ticks, got, i) ==
    IF i > Len(got) THEN <<>>
    ELSE (IF got[i]
          THEN [k \in DOMAIN Ledger(ticks[i]) |-> Approved(Ledger(ticks[i])[k])]
          ELSE <<>>) \o RangeFrom(ticks, got, i + 1)

getTransactionsByTickRange(ticks, got) == RangeFrom(ticks, got, 1)

\* txData.transactions of getTransactionsByTick: the catch block returns
\* { transactions: [] }
getTransactionsByTick(tick, ok) == IF ok THEN Ledger(tick) ELSE <<>>

\* how the body of a try block ends
Thrown == [threw |-> TRUE, value |-> <<>>]
Returned(v) == [threw |-> FALSE, value |-> v]

\* getWhaleActivity after the window has been read
WhaleActivity(txs) ==
    LET aggregated == aggregateByWallet(txs)
    IN IF aggregated.threw THEN Thrown
       ELSE Returned(identifyWhales(aggregated.wallets, DEFAULT_TOP_N))

\* getRecentAlerts after the window has been read
RecentAlerts(txs, th) == Returned(Cap(GenerateAlerts(txs, Qu(th))))

\* uniqueWallets of getHolderGrowth
UniqueWallets(txs) ==
    LET moved == {i \in DOMAIN txs : txs[i].moneyFlew # "false"}
    IN {txs[i].sourceId : i \in moved} \cup {txs[i].destId : i \in moved}

\* dataPoints of getHolderGrowth; t0 is Date.now()
HolderGrowth(ticks, got, T, t0) ==
    Returned([i \in DOMAIN got |->
                [date |-> (t0 - (T - ticks[i]) * MS_PER_TICK) \div MS_PER_DAY,
                 tick |-> ticks[i],
                 holders |-> Cardinality(UniqueWallets(
                                getTransactionsByTick(ticks[i], got[i])))]])

\* walletBalances.get(id) || 0n
BalanceOf(bal, id) ==
    IF IndexOf(bal, id) = 0 THEN 0 ELSE bal[IndexOf(bal, id)].balance

\* walletBalances.set(id, v)
SetBalance(bal, id, v) ==
    IF IndexOf(bal, id) = 0 THEN Append(bal, [wallet |-> id, balance |-> v])
    ELSE [bal EXCEPT ![IndexOf(bal, id)].balance = v]

\* (variant: the source is decremented whatever its balance)
ReplayTxUnclamped(bal, tx) ==
    LET b1 == SetBalance(bal, tx.destId,
                         BalanceOf(bal, tx.destId) + tx.amount)
    IN SetBalance(b1, tx.sourceId, BalanceOf(b1, tx.sourceId) - tx.amount)

\* the balance updates of one transaction in getTokenDistribution
ReplayTx(bal, tx) ==
    LET b1 == SetBalance(bal, tx.destId,
                         BalanceOf(bal, tx.destId) + tx.amount)
        sourceBalance == BalanceOf(b1, tx.sourceId)
    IN IF sourceBalance >= tx.amount
       THEN SetBalance(b1, tx.sourceId, sourceBalance - tx.amount)
       ELSE b1

\* the forEach over the transactions of one tick, from transaction i on;
\* BigInt() of an absent or unparsable amount throws into the catch block of
\* the tick, so that the transactions from that one on are not reached. The
\* reached transactions
\* lo .. hi are replayed in ascending order, the first half and then the
\* second half (the test on the first half makes it be evaluated before the
\* second half is entered, here and in SortByBalance).
ReplayTick(bal, txs, i) ==
    LET throws == {k \in i..Len(txs) :
                     txs[k].moneyFlew # "false" /\ txs[k].kind # "int"}
        last == IF throws = {} THEN Len(txs)
                ELSE (CHOOSE k \in throws : \A m \in throws : k <= m) - 1
        RECURSIVE Span(_, _, _)
        Span(b, lo, hi) ==
            IF lo > hi THEN b
            ELSE IF lo = hi
            THEN (IF txs[lo].moneyFlew = "false" THEN b
                  ELSE ReplayTx(b, txs[lo]))
            ELSE LET first == Span(b, lo, (lo + hi) \div 2)
                 IN IF Len(first) >= 0
                    THEN Span(first, (lo + hi) \div 2 + 1, hi)
                    ELSE first
    IN Span(bal, i, last)

RECURSIVE ReplayFrom(_, _, _, _)
ReplayFrom(bal, ticks, got, i) ==
    IF i > Len(got) THEN bal
    ELSE ReplayFrom(ReplayTick(bal, getTransactionsByTick(ticks[i], got[i]),
                               1),
                    ticks, got, i + 1)

\* .sort((a, b) => Number(b[1] - a[1])), a stable sort
InsertByBalance(sorted, x) ==
    LET k == Cardinality({i \in DOMAIN sorted :
                             sorted[i].balance >= x.balance})
    IN SubSeq(sorted, 1, k) \o <<x>> \o SubSeq(sorted, k + 1, Len(sorted))

SortByBalance(bal, i, sorted) ==
    LET RECURSIVE Span(_, _, _)
        Span(acc, lo, hi) ==
            IF lo > hi THEN acc
            ELSE IF lo = hi THEN InsertByBalance(acc, bal[lo])
            ELSE LET first == Span(acc, lo, (lo + hi) \div 2)
                 IN IF Len(first) >= 0
                    THEN Span(first, (lo + hi) \div 2 + 1, hi)
                    ELSE first
    IN Span(sorted, i, Len(bal))

\* wallets.reduce((sum, [_, bal]) => sum + bal, 0n)
SumFrom(bal, i) ==
    LET RECURSIVE Span(_, _)
        Span(lo, hi) ==
            IF lo > hi THEN 0
            ELSE IF lo = hi THEN bal[lo].balance
            ELSE Span(lo, (lo + hi) \div 2) + Span((lo + hi) \div 2 + 1, hi)
    IN Span(i, Len(bal))

\* one record of the result of getTokenDistribution; percentage is
\* Number((sum * 10000n) / totalSupply) / 100, kept in hundredths
Tier(name, wallets, totalSupply) ==
    [tier |-> name,
     percentage |-> [hundredths |-> (SumFrom(wallets, 1) * 10000)
                                       \div totalSupply],
     walletCount |-> Len(wallets),
     totalAmount |-> SumFrom(wallets, 1)]

\* (variant: the second tier starts one rank early)
DistributionTiersOverlap(walletBalances) ==
    LET sortedWallets == SortByBalance(walletBalances, 1, <<>>)
        totalSupply == SumFrom(sortedWallets, 1)
        n == Len(sortedWallets)
    IN IF n = 0 THEN Returned(<<>>)
       ELSE IF totalSupply = 0 THEN Thrown
       ELSE Returned(
              <<Tier("Top 1-3 Wallets", Slice(sortedWallets, 0, 3),
                     totalSupply),
                Tier("Top 4-10 Wallets", Slice(sortedWallets, 2, 10),
                     totalSupply),
                Tier("Top 11-50 Wallets", Slice(sortedWallets, 10, 50),
                     totalSupply),
                Tier("Retail Holders", Slice(sortedWallets, 50, n),
                     totalSupply)>>)

\* getTokenDistribution from the sort of walletBalances on; a division of
\* BigInts by 0n throws a RangeError
DistributionTiers(walletBalances) ==
    LET sortedWallets == SortByBalance(walletBalances, 1, <<>>)
        totalSupply == SumFrom(sortedWallets, 1)
        n == Len(sortedWallets)
    IN IF n = 0 THEN Returned(<<>>)
       ELSE IF totalSupply = 0 THEN Thrown
       ELSE Returned(
              <<Tier("Top 1-3 Wallets", Slice(sortedWallets, 0, 3),
                     totalSupply),
                Tier("Top 4-10 Wallets", Slice(sortedWallets, 3, 10),
                     totalSupply),
                Tier("Top 11-50 Wallets", Slice(sortedWallets, 10, 50),
                     totalSupply),
                Tier("Retail Holders", Slice(sortedWallets, 50, n),
                     totalSupply)>>)

\* getTokenDistribution after the window has been read
TokenDistribution(ticks, got) ==
    DistributionTiers(ReplayFrom(<<>>, ticks, got, 1))

\* the key of the heatmap bucket of a timestamp: day of the week and first
\* hour of the 4-hour bucket
BucketOf(ts) ==
    <<(ts \div MS_PER_DAY) % 7, (((ts % MS_PER_DAY) \div MS_PER_HOUR) \div 4) * 4>>

\* activityMap.set(key, (activityMap.get(key) || 0) + count)
AddActivity(m, key, count) ==
    IF \E i \in DOMAIN m : m[i].key = key
    THEN LET i == CHOOSE i \in DOMAIN m : m[i].key = key
         IN [m EXCEPT ![i].activity = @ + count]
    ELSE Append(m, [key |-> key, activity |-> count])

RECURSIVE HeatmapFrom(_, _, _, _, _, _)
HeatmapFrom(m, ticks, got, T, t0, i) ==
    IF i > Len(got) THEN m
    ELSE HeatmapFrom(
            AddActivity(m, BucketOf(t0 - (T - ticks[i]) * MS_PER_TICK),
                        Len(getTransactionsByTick(ticks[i], got[i]))),
            ticks, got, T, t0, i + 1)

\* getTransactionFlowHeatmap after the window has been read
TransactionFlowHeatmap(ticks, got, T, t0) ==
    LET m == HeatmapFrom(<<>>, ticks, got, T, t0, 1)
    IN Returned([i \in DOMAIN m |-> [day |-> m[i].key[1], hour |-> m[i].key[2],
                                     activity |-> m[i].activity]])

\* the classification of getTokenTradingHistory
TradeType(amount) ==
    LET Above(k) == \/ amount \div 1000 > k
                    \/ amount \div 1000 = k /\ amount % 1000 > 0
    IN IF Above(BUY_ABOVE) THEN "buy"
       ELSE IF Above(SELL_ABOVE) THEN "sell" ELSE "transfer"

\* the trades of one tick, from transaction i on; BigInt(tx.amount || 0)
\* throws on an unparsable amount into the catch block of the tick
RECURSIVE TradesOfTick(_, _, _)
TradesOfTick(txs, i, t0) ==
    IF i > Len(txs) THEN <<>>
    ELSE IF txs[i].kind = "bad" THEN <<>>
    ELSE IF txs[i].kind = "missing" \/ txs[i].amount = 0
         THEN TradesOfTick(txs, i + 1, t0)
    ELSE <<[tick |-> txs[i].tickNumber, type |-> TradeType(txs[i].amount),
            from |-> txs[i].sourceId, to |-> txs[i].destId,
            amount |-> txs[i].amount, timestamp |-> t0]>>
         \o TradesOfTick(txs, i + 1, t0)

RECURSIVE TradesFrom(_, _, _, _)
TradesFrom(ticks, got, t0, i) ==
    IF i > Len(got) THEN <<>>
    ELSE (IF got[i]
          THEN TradesOfTick(Slice(Ledger(ticks[i]), 0, TRADE_SLICE), 1, t0)
          ELSE <<>>) \o TradesFrom(ticks, got, t0, i + 1)

\* displayTxs of fetchTransactions: the first 10 transactions with their
\* amounts in QU; BigInt(tx.amount) throws on an unparsable amount
DisplayTxs(allTxs) ==
    LET shown == Slice(allTxs, 0, 10)
    IN IF \E i \in DOMAIN shown : shown[i].kind = "bad" THEN Thrown
       ELSE Returned([i \in DOMAIN shown |->
                [type |-> "Transfer", tick |-> shown[i].tickNumber,
                 amount |-> IF shown[i].kind = "missing" THEN 0
                            ELSE shown[i].amount \div 1000000000]])

\* the body of the try block of an aggregate accessor (of fetchTransactions)
\* once its last request has been answered
Body(fn, arg, T, ticks, got, t0) ==
    CASE fn = "getWhaleActivity" ->
            WhaleActivity(getTransactionsByTickRange(ticks, got))
      [] fn = "getRecentAlerts" ->
            RecentAlerts(getTransactionsByTickRange(ticks, got), arg)
      [] fn = "getHolderGrowth" -> HolderGrowth(ticks, got, T, t0)
      [] fn = "getTokenDistribution" -> TokenDistribution(ticks, got)
      [] fn = "getTransactionFlowHeatmap" ->
            TransactionFlowHeatmap(ticks, got, T, t0)
      [] fn = "getTokenTradingHistory" -> Returned(TradesFrom(ticks, got, t0, 1))
      [] fn = "fetchTransactions" ->
            DisplayTxs(getTransactionsByTickRange(ticks, got))

\* (variant: no catch block around the body)
Uncaught(r) == [rejected |-> r.threw, value |-> r.value]

\* try { ... } catch (e) { return []; }
Caught(r) ==
    [rejected |-> FALSE, value |-> IF r.threw THEN <<>> ELSE r.value]

\* inputs of the replay and the tiers of getTokenDistribution
MaxDistTxs == 3
MaxPatterns == 3

\* the replay, the sort and the tiers of getTokenDistribution are applied
\* to the transactions of a one-tick window
ApplyDistribution(txs) ==
    /\ pure = NoPure
    /\ pure' = [op |-> "getTokenDistribution", txs |-> txs,
                balances |-> ReplayTick(<<>>, txs, 1),
                out |-> Caught(DistributionTiers(ReplayTick(<<>>, txs, 1)))]
    /\ UNCHANGED <<qvars, job, reqs>>

\* short windows over every transaction shape and a transfer of amount 0,
\* and windows in which one wallet pays k others
DistNext ==
    /\ pure = NoPure
    /\ LET Zero == Tx("A", "B", "int", 0, "true", 0)
           FanOut(k, p) ==
               [i \in 1..k |-> Tx("F", ToString(i), "int",
                                  ((i * p) % 7) * 100 + (p % 2) * 50,
                                  "true", 0)]
       IN \E txs \in SeqsUpTo(TxInputs \cup {Zero}, MaxDistTxs)
                      \cup {FanOut(k, p) : k \in {4, 10, 11, 50, 51, 53},
                                           p \in 1..MaxPatterns} :
             ApplyDistribution(txs)

DistSpec == Init /\ [][DistNext]_vars

\* inputs of the aggregate accessors
MaxWindow == 3
EXAMPLE_WINDOW == 10
TickBacks == (0..MaxWindow) \cup {EXAMPLE_WINDOW}

\* tickInfo.tick of the tick-info payload; 0 also stands for a payload
\* without tickInfo.tick
CurrentTicks == {0, 50, 100, 102, 5000}

\* the second argument: largeThreshold of getRecentAlerts, sampleInterval of
\* getHolderGrowth
SecondArgs(fn) ==
    CASE fn = "getRecentAlerts" -> {1}
      [] fn = "getHolderGrowth" -> {0, 1, 10}
      [] OTHER -> {0}

\* a caller invokes an aggregate accessor, which runs up to
\* await getTickInfo(); for fetchTransactions: the table is mounted under
\* the TickProvider, whose currentTick is 0 while fetchTick awaits
\* getTickInfo(), so that the first fetchTransactions returns at once
Invoke(fn, n, arg) ==
    /\ job.pc = "idle"
    /\ job' = [NoJob EXCEPT !.pc = "tickinfo", !.fn = fn, !.n = n,
                            !.arg = arg]
    /\ UNCHANGED <<qvars, reqs, pure>>

\* the accessor leaves its try block at time t and its promise settles
Finish(j, t) == [j EXCEPT !.pc = "done", !.doneAt = t]

\* what the promise of a finished invocation j, whose requests were for the
\* ticks rq, settles with: the catch block is entered when getTickInfo
\* rejected or the body threw;  if (!currentTick) return [];
Outcome(j, rq) ==
    IF j.info = "failed" THEN Caught(Thrown)
    ELSE IF j.T = 0 THEN Caught(Returned(<<>>))
    ELSE Caught(Body(j.fn, j.arg, j.T, rq, j.got, j.doneAt))

\* (variant: the tick is used without the test for zero)
TickInfoSettlesAnyTick(ok, T) ==
    /\ job.pc = "tickinfo"
    /\ IF ~ok
       THEN /\ job' = Finish([job EXCEPT !.info = "failed"], now)
            /\ UNCHANGED reqs
       ELSE LET w == Window(job.fn, T, job.n, job.arg)
                j == [job EXCEPT !.info = "ok", !.T = T]
            IN IF w.start <= w.end
               THEN /\ job' = [j EXCEPT !.pc = "fetch", !.tick = w.start,
                                        !.end = w.end, !.stride = w.stride]
                    /\ reqs' = <<w.start>>
               ELSE /\ job' = Finish(j, now)
                    /\ UNCHANGED reqs
    /\ UNCHANGED <<qvars, pure>>

\* the promise of getTickInfo settles: rejected (ok = FALSE) or with a
\* payload; the accessor runs on to its first per-tick request or to its
\* end.  For fetchTransactions the promise is the one of
\* TickProvider.fetchTick: a payload makes it setCurrentTick(T), and a
\* currentTick other than 0 runs fetchTransactions again.
TickInfoSettles(ok, T) ==
    /\ job.pc = "tickinfo"
    /\ IF ~ok
       THEN /\ job' = Finish([job EXCEPT !.info = "failed"], now)
            /\ UNCHANGED reqs
       ELSE IF T = 0
       THEN \* if (!currentTick) return [];   if (currentTick === 0) return;
            /\ job' = Finish([job EXCEPT !.info = "ok"], now)
            /\ UNCHANGED reqs
       ELSE LET w == Window(job.fn, T, job.n, job.arg)
                j == [job EXCEPT !.info = "ok", !.T = T]
            IN IF /\ w.start <= w.end
                  /\ ~(job.fn = "fetchTransactions" /\ fetchTransactions(T).skip)
               THEN /\ job' = [j EXCEPT !.pc = "fetch", !.tick = w.start,
                                        !.end = w.end, !.stride = w.stride]
                    /\ reqs' = <<w.start>>
               ELSE /\ job' = Finish(j, now)
                    /\ UNCHANGED reqs
    /\ UNCHANGED <<qvars, pure>>

\* the rounds of a loop whose step is 0 that are recorded
MaxSpin == 3

\* the request for job.tick settles (ok: answered with the tick's
\* transactions; otherwise failed); the loop goes on to the next request or
\* the accessor finishes.  A loop with step 0 requests the same tick in
\* every round; its rounds after the first MaxSpin change nothing that is
\* recorded.
TickSettles(ok) ==
    /\ job.pc = "fetch"
    /\ LET got == Append(job.got, ok)
           next == job.tick + job.stride
       IN IF job.stride = 0 /\ Len(reqs) >= MaxSpin
          THEN UNCHANGED <<job, reqs>>
          ELSE IF next <= job.end
          THEN /\ job' = [job EXCEPT !.got = got, !.tick = next]
               /\ reqs' = Append(reqs, next)
          ELSE /\ job' = Finish([job EXCEPT !.got = got], now)
               /\ UNCHANGED reqs
    /\ UNCHANGED <<qvars, pure>>

AggNext ==
    \/ \E fn \in AggregateAccessors : \E n \in TickBacks :
          \E arg \in SecondArgs(fn) : Invoke(fn, n, arg)
    \/ Invoke("fetchTransactions", 0, 0)
    \/ \E ok \in BOOLEAN : \E T \in CurrentTicks : TickInfoSettles(ok, T)
    \/ \E ok \in BOOLEAN : TickSettles(ok)

\* every request of the accessor is settled by the layer below
AggFairness ==
    /\ WF_vars(\E ok \in BOOLEAN : \E T \in CurrentTicks :
                  TickInfoSettles(ok, T))
    /\ WF_vars(\E ok \in BOOLEAN : TickSettles(ok))

AggSpec == Init /\ [][AggNext]_vars /\ AggFairness

\* ------------------------------------------------------------ properties
Settled == {"ok", "err"}

\* the ids of the calls that reached queue.enqueue, in submission order
EnqSeq ==
    SelectSeq([i \in 1..Len(calls) |-> i], LAMBDA i : calls[i].enqueued)

\* the tasks whose transport call is in flight
InFlight == {ch.task : ch \in {x \in chains : x.phase = "fetch"}}

\* C1: tasks are dispatched in submission order, and a task's body has
\* finished (its promise is settled) before the next task's body starts.
C1_Fifo ==
    /\ Len(dispSeq) <= Len(EnqSeq)
    /\ dispSeq = SubSeq(EnqSeq, 1, Len(dispSeq))
    /\ \A i \in 1..(Len(dispSeq) - 1) : calls[dispSeq[i]].state \in Settled

\* three tasks were submitted and all three were dispatched
C1_Witness ==
    /\ Len(dispSeq) = 3
    /\ calls[dispSeq[3]].state \in Settled

\* C2: the dispatch starts of consecutive tasks are at least MIN_DELAY apart.
C2_MinDelay ==
    \A i \in 1..(Len(dispSeq) - 1) :
        calls[dispSeq[i + 1]].startedAt - calls[dispSeq[i]].startedAt >= MIN_DELAY

\* a task waited in the queue behind another one and was dispatched exactly
\* MIN_DELAY after it
C2_Witness ==
    /\ Len(dispSeq) >= 2
    /\ ~calls[dispSeq[2]].armed
    /\ calls[dispSeq[2]].startedAt = calls[dispSeq[1]].startedAt + MIN_DELAY

\* C3: at most one transport call is in flight, and each one belongs to a
\* task that went through the queue and is the one process() is awaiting.
C3_OneInFlight ==
    /\ Cardinality(InFlight) <= 1
    /\ \A i \in 1..Len(calls) :
          calls[i].state = "running" =>
             /\ calls[i].enqueued
             /\ \E n \in 1..Len(dispSeq) : dispSeq[n] = i
             /\ \E ch \in chains : ch.task = i /\ ch.phase \in {"fetch", "cooldown"}

\* a transport call is in flight while two more requests wait in the queue
C3_Witness ==
    /\ Cardinality(InFlight) = 1
    /\ Len(queue) = 2

\* the task of call i has been dispatched
WasDispatched(i) == \E n \in 1..Len(dispSeq) : dispSeq[n] = i

\* call i reached queue.enqueue
WasEnqueued(i) == IF i <= Len(calls) THEN calls[i].enqueued ELSE FALSE

\* the promise of call i is settled
IsSettled(i) == IF i <= Len(calls) THEN calls[i].state \in Settled ELSE FALSE

\* call i was enqueued after a call whose task failed
QueuedBehindFailure(i) ==
    /\ WasEnqueued(i)
    /\ \E j \in 1..(i - 1) : calls[j].enqueued /\ calls[j].state = "err"

\* C4: a failing task body rejects the promise of the caller that enqueued
\* that task and changes no other caller's promise, and every task queued
\* behind a failed one is still dispatched and settles.
C4_FailureIsolated ==
    /\ [][\A i \in 1..Len(calls) :
            (calls[i].state \notin Settled /\ calls'[i].state = "err") =>
               /\ \E ch \in chains :
                     ch.task = i /\ ch.phase \in {"fetch", "cooldown"}
               /\ \A j \in (1..Len(calls)) \ {i} : calls'[j] = calls[j]]_vars
    /\ \A i \in 1..LiveCalls : QueuedBehindFailure(i) ~> IsSettled(i)

\* a task failed and a task that waited behind it in the queue succeeded
C4_Witness ==
    \E i \in 1..Len(calls) : \E j \in 1..(i - 1) :
        /\ calls[j].enqueued /\ calls[j].state = "err"
        /\ calls[i].enqueued /\ ~calls[i].armed /\ calls[i].state = "ok"

\* C5: the limiter is idle (processing = false) exactly when no activation
\* of process() is left, which happens only with an empty queue, and every
\* enqueued task is eventually dispatched.
C5_NoLostTask ==
    /\ [](processing = FALSE <=> chains = {})
    /\ [](chains = {} => queue = <<>>)
    /\ \A i \in 1..LiveCalls : WasEnqueued(i) ~> WasDispatched(i)

\* the queue drained, the limiter went idle, and a later enqueue re-armed it
\* and was dispatched
C5_Witness ==
    \E i \in 2..Len(calls) :
        /\ calls[i].armed /\ WasDispatched(i)
        /\ \E j \in 1..(i - 1) : WasDispatched(j)

\* C6: a get that follows a put of the same key returns the payload put while
\* less than CACHE_TTL has elapsed since the put; once CACHE_TTL or more has
\* elapsed it returns absent (null) and the entry is removed.
C6_CacheTtl ==
    (lastGet.valid /\ lastGet.put.present) =>
       IF lastGet.at - lastGet.put.time < CACHE_TTL
       THEN lastGet.result = lastGet.put.data
       ELSE lastGet.result = Null /\ lastGet.left = NoEntry

\* a payload was put and a get exactly CACHE_TTL later found it expired
C6_Witness ==
    /\ lastGet.valid /\ lastGet.put.present
    /\ Truthy(lastGet.put.data)
    /\ lastGet.at - lastGet.put.time = CACHE_TTL
    /\ lastGet.result = Null
    /\ ~cache[lastGet.key].present

\* C7: two callers issuing the same GET request within the TTL cause at most
\* one transport call for that key, even when the first call succeeds with
\* a cacheable payload only after the second was issued.  (Both calls were
\* issued between StartTime and the later dispatch, so they are within the
\* TTL of each other when that span is shorter than CACHE_TTL.)
C7_OneFetchPerKey ==
    \A i \in 1..Len(calls) : \A j \in (i + 1)..Len(calls) :
        ~ (/\ calls[i].method = "GET"
           /\ calls[j].key = calls[i].key
           /\ calls[j].startedAt - StartTime < CACHE_TTL
           /\ calls[i].state = "ok" /\ Truthy(calls[i].result)
           /\ WasDispatched(i)
           /\ WasDispatched(j))

\* C8: a POST request is never answered from the cache and never writes a
\* cache entry: every POST call reaches queue.enqueue.
C8_PostBypassesCache ==
    \A i \in 1..Len(calls) :
        calls[i].method = "POST" =>
           /\ calls[i].enqueued
           /\ ~cache[calls[i].key].present

\* a POST succeeded with a truthy payload and the limiter went idle; the same
\* POST, repeated within the TTL, was enqueued again
C8_Witness ==
    /\ Len(calls) = 2
    /\ calls[1].method = "POST"
    /\ calls[1].state = "ok" /\ Truthy(calls[1].result)
    /\ calls[2].key = calls[1].key
    /\ calls[2].armed
    /\ calls[2].startedAt - StartTime < CACHE_TTL

\* C9: every accessor that takes an identifier, called with the empty
\* identifier, fails with a validation error and enqueues no request.
C9_EmptyIdRejected ==
    \A i \in 1..Len(calls) :
        (calls[i].acc \in TakesId /\ calls[i].id = "") =>
           /\ calls[i].state = "err"
           /\ calls[i].error = "validation"
           /\ ~calls[i].enqueued

\* C10: after a 429 the request is not sent to the transport again, and the
\* rate-limit error is surfaced to the caller only if the upstream is still
\* rate limiting when the cooldown ends.
C10_ErrorOnlyIfPersists ==
    [][\A i \in 1..Len(calls) :
          /\ (calls'[i].startedAt # calls[i].startedAt) =>
                 calls[i].state = "queued"
          /\ (calls[i].error # "ratelimit" /\ calls'[i].error = "ratelimit") =>
                 limited]_vars


Settling(txs) ==
    SelectSeq(txs, LAMBDA tx : tx.moneyFlew # "false" /\ tx.kind # "missing")

\* C13: aggregateByWallet returns for every transaction list what it returns
\* for the list without the transactions that have moneyFlew === false or no
\* amount: those transactions add to no total and create no wallet entry.
C13_SkippedAddNothing ==
    pure.op = "aggregateByWallet"
    => pure.out = aggregateByWallet(Settling(pure.txs))

\* a list with a counted transfer, then a moneyFlew === false transfer of
\* another wallet, then a transfer with no amount: the other wallet has no
\* entry
C13_Witness ==
    /\ pure.op = "aggregateByWallet"
    /\ Len(pure.txs) = 3
    /\ pure.txs[1].sourceId = "A" /\ pure.txs[1].destId = "A"
    /\ pure.txs[1].kind = "int" /\ pure.txs[1].moneyFlew = "true"
    /\ pure.txs[2].sourceId = "B" /\ pure.txs[2].moneyFlew = "false"
    /\ pure.txs[3].kind = "missing"
    /\ ~pure.out.threw
    /\ pure.out.wallets = <<WalletEntry("A", 500, 500)>>

\* the WalletAggregation object as a set of key / value pairs
AsObject(ws) == {ws[i] : i \in DOMAIN ws}

\* C14 (as stated): aggregateByWallet applied to [A->B 500 flew, B->C 200
\* flew, C->A 1000 not flew] returns A {out 500, in 200}, B {out 200, in 500},
\* C {out 0, in 200}.
C14_ScenarioAsStated ==
    (pure.op = "aggregateByWallet" /\ pure.txs = Scenario)
    => /\ ~pure.out.threw
       /\ AsObject(pure.out.wallets) =
              {WalletEntry("A", 500, 200), WalletEntry("B", 200, 500),
               WalletEntry("C", 0, 200)}

\* C14 (amended): aggregateByWallet applied to that list returns
\* A {out 500, in 0}, B {out 200, in 500}, C {out 0, in 200}: A receives only
\* the transfer that did not move money.
C14_ScenarioResult ==
    (pure.op = "aggregateByWallet" /\ pure.txs = Scenario)
    => /\ ~pure.out.threw
       /\ AsObject(pure.out.wallets) =
              {WalletEntry("A", 500, 0), WalletEntry("B", 200, 500),
               WalletEntry("C", 0, 200)}

\* aggregateByWallet has been applied to the scenario's list
C14_Witness ==
    /\ pure.op = "aggregateByWallet" /\ pure.txs = Scenario
    /\ Len(pure.out.wallets) = 3

\* the injections from 1..k into 1..n
Injections(k, n) ==
    {f \in [1..k -> 1..n] : \A i, j \in 1..k : i # j => f[i] # f[j]}

\* C15: for every wallet aggregate and every topN >= 0, identifyWhales
\* returns min(topN, number of wallets) records, in order of non-increasing
\* buys + sells, record i labelled "Whale #i"; the records are those of
\* distinct wallets (buys and sells being the wallet's incoming and outgoing
\* totals in QU) and no wallet left out has a larger volume than one returned.
C15_TopWhales ==
    pure.op = "identifyWhales"
    => LET ws == pure.wallets
           out == pure.out
           k == IF pure.topN < Len(ws) THEN pure.topN ELSE Len(ws)
       IN /\ Len(out) = k
          /\ \A i, j \in DOMAIN out :
                i < j => out[i].buys.milli + out[i].sells.milli
                            >= out[j].buys.milli + out[j].sells.milli
          /\ \A i \in DOMAIN out : out[i].wallet = <<"Whale #", i>>
          /\ \E f \in Injections(k, Len(ws)) :
                /\ \A i \in 1..k :
                      /\ out[i].buys.milli = ws[f[i]].incoming
                      /\ out[i].sells.milli = ws[f[i]].outgoing
                      /\ out[i].net.milli
                            = ws[f[i]].incoming - ws[f[i]].outgoing
                /\ \A i \in 1..k : \A j \in DOMAIN ws :
                      (\A h \in 1..k : f[h] # j)
                      => ws[j].incoming + ws[j].outgoing
                            <= ws[f[i]].incoming + ws[f[i]].outgoing

\* three wallets of growing volume, the top two asked for: the last two
\* wallets are returned, largest first
C15_Witness ==
    /\ pure.op = "identifyWhales"
    /\ pure.topN = 2
    /\ Len(pure.wallets) = 3
    /\ pure.wallets[1] = WalletEntry("A", 1000, 0)
    /\ pure.wallets[2] = WalletEntry("B", 2500, 2500)
    /\ pure.wallets[3] = WalletEntry("C", 0, 2500)
    /\ Len(pure.out) = 2
    /\ pure.out[1].sells = ToQU(2500) /\ pure.out[1].buys = ToQU(2500)
    /\ pure.out[2].sells = ToQU(0)
\* the whale alerts among alerts that transaction i of the scan produced
WhaleAlertsOf(alerts, i) ==
    {k \in DOMAIN alerts : alerts[k].type # "new_wallet" /\ alerts[k].id = i}

\* the new-wallet alerts among alerts that transaction i of the scan produced
NewWalletAlertsOf(alerts, i) ==
    {k \in DOMAIN alerts :
        alerts[k].type = "new_wallet" /\ alerts[k].id = i - 1 + NEW_WALLET_ID}

\* C16: in the scan of getRecentAlerts every settled transaction whose amount
\* in QU exceeds the threshold produces exactly one whale alert, of impact
\* High when the amount exceeds twice the threshold and Medium otherwise, and
\* every other transaction produces no whale alert; with threshold 1000 a
\* transaction of 2500 QU followed by one of 1200 QU returns a High and a
\* Medium whale alert.
C16_WhaleAlertImpact ==
    pure.op = "alerts"
    => /\ \A i \in DOMAIN pure.txs :
             LET tx == pure.txs[i]
                 whale == WhaleAlertsOf(pure.alerts, i)
             IN IF /\ tx.moneyFlew # "false" /\ tx.kind = "int"
                   /\ tx.amount > pure.th * 1000
                THEN /\ Cardinality(whale) = 1
                     /\ \A k \in whale :
                           pure.alerts[k].impact =
                              IF tx.amount > 2 * pure.th * 1000
                              THEN "High" ELSE "Medium"
                ELSE whale = {}
       /\ (/\ pure.th = 1000 /\ Len(pure.txs) = 2
           /\ \A i \in 1..2 : pure.txs[i].kind = "int"
                               /\ pure.txs[i].moneyFlew = "true"
           /\ pure.txs[1].amount = 2500000 /\ pure.txs[2].amount = 1200000)
          => LET whales == SelectSeq(pure.out,
                                     LAMBDA a : a.type # "new_wallet")
             IN /\ Len(whales) = 2
                /\ whales[1].impact = "High" /\ whales[1].id = 1
                /\ whales[2].impact = "Medium" /\ whales[2].id = 2

\* threshold 1000, a transfer of 2500 QU by A and one of 1200 QU by B: four
\* alerts, the whale alerts High and Medium
C16_Witness ==
    /\ pure.op = "alerts" /\ pure.th = 1000 /\ Len(pure.txs) = 2
    /\ pure.txs[1].sourceId = "A" /\ pure.txs[1].amount = 2500000
    /\ pure.txs[1].moneyFlew = "true"
    /\ pure.txs[2].sourceId = "B" /\ pure.txs[2].amount = 1200000
    /\ pure.txs[2].moneyFlew = "true"
    /\ Len(pure.out) = 4
    /\ pure.out[1].impact = "High" /\ pure.out[1].type = "whale_buy"
    /\ pure.out[3].impact = "Medium" /\ pure.out[3].type = "whale_buy"

\* C18: in one scan of getRecentAlerts a new-wallet alert is generated at a
\* transaction exactly when it is the first settled transaction of its source
\* whose amount in QU exceeds half the threshold; earlier transactions of the
\* source at or below half the threshold do not prevent it, and no later
\* transaction of the source produces another.
C18_NewWalletOnce ==
    pure.op = "alerts"
    => \A i \in DOMAIN pure.txs :
          LET above(j) == /\ pure.txs[j].moneyFlew # "false"
                          /\ pure.txs[j].kind = "int"
                          /\ 2 * pure.txs[j].amount > pure.th * 1000
              first == /\ above(i)
                       /\ \A j \in 1..(i - 1) :
                             pure.txs[j].sourceId = pure.txs[i].sourceId
                             => ~above(j)
          IN Cardinality(NewWalletAlertsOf(pure.alerts, i))
                = IF first THEN 1 ELSE 0

\* threshold 1000 and three transfers by A, of 500, 800 and 2500 QU: the
\* new-wallet alert belongs to the second, the third adds a whale alert only
C18_Witness ==
    /\ pure.op = "alerts" /\ pure.th = 1000 /\ Len(pure.txs) = 3
    /\ \A i \in 1..3 : pure.txs[i].sourceId = "A"
                        /\ pure.txs[i].moneyFlew = "true"
    /\ pure.txs[1].amount = 500000
    /\ pure.txs[2].amount = 800000
    /\ pure.txs[3].amount = 2500000
    /\ Len(pure.alerts) = 2
    /\ pure.alerts[1].type = "new_wallet" /\ pure.alerts[1].id = 101
    /\ pure.alerts[2].type = "whale_buy" /\ pure.alerts[2].id = 3

\* the accessors C12 speaks of
Degrading ==
    {"getWhaleActivity", "getRecentAlerts", "getTokenDistribution",
     "getTransactionFlowHeatmap"}

\* C12: getWhaleActivity, getRecentAlerts, getTokenDistribution and
\* getTransactionFlowHeatmap never reject towards their caller; whatever
\* requests fail, an invocation completes with a result, and the result is
\* the empty list when the tick-info request failed.
C12_NeverFails ==
    /\ []((job.fn \in Degrading /\ job.pc = "done")
           => /\ ~Outcome(job, reqs).rejected
              /\ job.info = "failed" => Outcome(job, reqs).value = <<>>)
    /\ ((job.fn \in Degrading /\ job.pc # "done") ~> (job.pc = "done"))

\* getWhaleActivity has completed with the empty list although tick-info
\* was answered: an amount of the window could not be parsed
C12_Witness ==
    /\ job.pc = "done" /\ job.fn = "getWhaleActivity"
    /\ job.info = "ok" /\ job.T = 5000
    /\ \E i \in DOMAIN job.got : ~job.got[i]
    /\ \E i \in DOMAIN job.got : job.got[i] /\ reqs[i] % 4 = 3
    /\ Outcome(job, reqs) = [rejected |-> FALSE, value |-> <<>>]

\* the ticks lo .. hi in ascending order
TickRange(lo, hi) ==
    [i \in 1..(IF hi >= lo THEN hi - lo + 1 ELSE 0) |-> lo + i - 1]

\* C19: getWhaleActivity and getRecentAlerts with current tick T and window
\* n request the ticks max(0, T - 100 - n + 1) .. T - 100 in ascending order
\* and no other tick; with T = 5000 and n = 10 these are 4891 .. 4900.
C19_SafeWindow ==
    (job.fn \in RangeAccessors /\ job.info = "ok" /\ job.T # 0)
    => LET lo == IF job.T - 100 - job.n + 1 > 0
                 THEN job.T - 100 - job.n + 1 ELSE 0
           want == TickRange(lo, job.T - 100)
       IN /\ Len(reqs) <= Len(want)
          /\ reqs = SubSeq(want, 1, Len(reqs))
          /\ job.pc = "done" => reqs = want
          /\ (job.pc = "done" /\ job.T = 5000 /\ job.n = 10)
             => reqs = <<4891, 4892, 4893, 4894, 4895, 4896, 4897, 4898,
                         4899, 4900>>

\* getRecentAlerts has finished for current tick 5000 and a window of 10
\* ticks, of which it requested the last as tick 4900
C19_Witness ==
    /\ job.fn = "getRecentAlerts" /\ job.pc = "done"
    /\ job.T = 5000 /\ job.n = 10
    /\ Len(reqs) = 10 /\ reqs[1] = 4891 /\ reqs[10] = 4900

\* C20: no aggregate accessor requests the transactions of a tick greater
\* than currentTick - 100.
C20_LagBeforeQuery ==
    (job.fn \in AggregateAccessors /\ job.info = "ok" /\ job.T # 0)
    => \A i \in DOMAIN reqs : reqs[i] <= job.T - 100

\* C17: getRecentAlerts returns at most 8 alerts: the first 8 (or all, when
\* fewer) of the alerts of the scan, ordered by ascending tick, then position
\* within the tick, then whale alert before new-wallet alert.
C17_FirstEightInScanOrder ==
    (/\ job.fn = "getRecentAlerts" /\ job.pc = "done"
     /\ job.info = "ok" /\ job.T # 0)
    => LET out == Outcome(job, reqs).value
           \* <<tick, position in the tick>> of every transaction of the
           \* requested ticks that were answered
           ScanKeys ==
               UNION {{<<reqs[i], p>> : p \in DOMAIN Ledger(reqs[i])} :
                         i \in {k \in DOMAIN job.got : job.got[k]}}
           \* ascending tick, then position within the tick
           Before(a, b) == a[1] < b[1] \/ (a[1] = b[1] /\ a[2] < b[2])
           \* the place of a transaction in that order, counted from 1
           Rank(k) == Cardinality({x \in ScanKeys : Before(x, k)}) + 1
           TxAt(k) == Ledger(k[1])[k[2]]
           \* the amount in QU exceeds the threshold job.arg / half of it
           IsLarge(k) ==
               TxAt(k).kind = "int" /\ TxAt(k).amount > job.arg * 1000
           IsAboveHalf(k) ==
               TxAt(k).kind = "int" /\ 2 * TxAt(k).amount > job.arg * 1000
           \* the alerts of the scan: <<k, 1>> the whale alert and <<k, 2>>
           \* the new-wallet alert of transaction k
           ExpectedAlerts ==
               {<<k, 1>> : k \in {x \in ScanKeys : IsLarge(x)}}
               \cup {<<k, 2>> : k \in {x \in ScanKeys :
                        /\ IsAboveHalf(x)
                        /\ \A y \in ScanKeys :
                              (/\ Before(y, x)
                               /\ TxAt(y).sourceId = TxAt(x).sourceId)
                              => ~IsAboveHalf(y)}}
           \* scan order of the alerts: by transaction, whale alert first
           AlertBefore(a, b) ==
               Before(a[1], b[1]) \/ (a[1] = b[1] /\ a[2] < b[2])
           total == Cardinality(ExpectedAlerts)
       IN /\ Len(out) <= 8
          /\ Len(out) = IF total < 8 THEN total ELSE 8
          /\ \A j \in DOMAIN out :
                \E e \in ExpectedAlerts :
                   /\ Cardinality({x \in ExpectedAlerts :
                                      AlertBefore(x, e)}) = j - 1
                   /\ out[j].type = IF e[2] = 1 THEN "whale_buy"
                                    ELSE "new_wallet"
                   /\ out[j].id = IF e[2] = 1 THEN Rank(e[1])
                                  ELSE Rank(e[1]) + 99
                   /\ out[j].message[1] = IF e[2] = 1
                                          THEN TxAt(e[1]).sourceId ELSE ""
                   /\ out[j].message[3].milli
                         = (TxAt(e[1]).amount \div 1000) * 1000

\* every tick of the window 4891 .. 4900 was answered: the scan generates ten
\* alerts, eight are returned, and a Medium alert stands before a High one
C17_Witness ==
    /\ job.fn = "getRecentAlerts" /\ job.pc = "done"
    /\ job.T = 5000 /\ job.n = 10
    /\ \A i \in DOMAIN job.got : job.got[i]
    /\ Len(GenerateAlerts(getTransactionsByTickRange(reqs, job.got),
                          Qu(job.arg))) = 10
    /\ Len(Outcome(job, reqs).value) = 8
    /\ \E i, j \in 1..8 :
          /\ i < j
          /\ Outcome(job, reqs).value[i].impact = "Medium"
          /\ Outcome(job, reqs).value[j].impact = "High"

\* C21: when getTokenDistribution returns tiers, they are the rank ranges
\* 1-3, 4-10, 11-50 and 51 on of the reconstructed wallets ranked by
\* descending balance: the walletCounts sum to the number of wallets, the
\* totalAmounts sum to the total of all balances, and each tier holds the
\* balances of its ranks, so that no balance of a tier is below one of the
\* next tier.
C21_TiersPartition ==
    (pure.op = "getTokenDistribution" /\ Len(pure.out.value) = 4)
    => LET bal == pure.balances
           n == Len(bal)
           out == pure.out.value
           \* the balance at rank r of the descending ranking
           RankValue(r) ==
               CHOOSE v \in {bal[i].balance : i \in DOMAIN bal} :
                  /\ Cardinality({i \in DOMAIN bal : bal[i].balance > v}) < r
                  /\ r <= Cardinality({i \in DOMAIN bal :
                                          bal[i].balance >= v})
           RECURSIVE RankSum(_, _)
           RankSum(lo, hi) ==
               IF lo > hi THEN 0
               ELSE IF lo = hi THEN RankValue(lo)
               ELSE RankSum(lo, (lo + hi) \div 2)
                    + RankSum((lo + hi) \div 2 + 1, hi)
           Upto(r) == IF r < n THEN r ELSE n
           first == <<1, 4, 11, 51>>
           last == <<Upto(3), Upto(10), Upto(50), n>>
           Count(t) == IF last[t] >= first[t] THEN last[t] - first[t] + 1
                       ELSE 0
       IN /\ \A t \in 1..4 :
                /\ out[t].walletCount = Count(t)
                /\ out[t].totalAmount = RankSum(first[t], last[t])
          /\ out[1].walletCount + out[2].walletCount + out[3].walletCount
                + out[4].walletCount = n
          /\ out[1].totalAmount + out[2].totalAmount + out[3].totalAmount
                + out[4].totalAmount = RankSum(1, n)
          /\ \A t \in 1..3 :
                (Count(t) > 0 /\ Count(t + 1) > 0)
                => RankValue(last[t]) >= RankValue(first[t + 1])

\* 53 wallets, received in no order of balance and with equal balances among
\* them, fill all four tiers
C21_Witness ==
    /\ pure.op = "getTokenDistribution"
    /\ Len(pure.balances) = 53
    /\ \E i, j \in DOMAIN pure.balances :
          i < j /\ pure.balances[i].balance < pure.balances[j].balance
    /\ \E i, j \in DOMAIN pure.balances :
          i # j /\ pure.balances[i].balance = pure.balances[j].balance
    /\ Len(pure.out.value) = 4
    /\ pure.out.value[1].walletCount = 3
    /\ pure.out.value[2].walletCount = 7
    /\ pure.out.value[3].walletCount = 40
    /\ pure.out.value[4].walletCount = 3
    /\ pure.out.value[4].totalAmount > 0

\* C22: in the replay of getTokenDistribution every reconstructed balance is
\* >= 0 after every applied transfer; the transfer adds its amount to the
\* destination and then takes it from the source only when the source
\* balance is at least the amount, and leaves the source unchanged
\* otherwise; no other wallet changes.
C22_ReplayClamped ==
    pure.op = "getTokenDistribution"
    => LET txs == pure.txs
           n == Len(txs)
           after == pure.balances
           \* every transaction up to the last was applied or skipped
           replayed == \A i \in 1..n :
                          txs[i].kind = "int" \/ txs[i].moneyFlew = "false"
       IN /\ \A i \in DOMAIN after : after[i].balance >= 0
          /\ (n > 0 /\ replayed /\ txs[n].moneyFlew # "false")
             => LET tx == txs[n]
                    before == ReplayTick(<<>>, SubSeq(txs, 1, n - 1), 1)
                    Was(w) == BalanceOf(before, w)
                    Is(w) == BalanceOf(after, w)
                IN /\ tx.sourceId # tx.destId
                      => /\ Is(tx.destId) = Was(tx.destId) + tx.amount
                         /\ Is(tx.sourceId)
                              = IF Was(tx.sourceId) >= tx.amount
                                THEN Was(tx.sourceId) - tx.amount
                                ELSE Was(tx.sourceId)
                   /\ tx.sourceId = tx.destId
                      => Is(tx.destId) = Was(tx.destId)
                   /\ \A w \in {before[i].wallet : i \in DOMAIN before} :
                         w \notin {tx.sourceId, tx.destId} => Is(w) = Was(w)
                   /\ \A i \in DOMAIN after :
                         \/ after[i].wallet \in {tx.sourceId, tx.destId}
                         \/ \E k \in DOMAIN before :
                               before[k].wallet = after[i].wallet

\* the third transfer asks for more than the positive balance of its source:
\* the destination is credited and the source keeps its balance
C22_Witness ==
    /\ pure.op = "getTokenDistribution"
    /\ Len(pure.txs) = 3
    /\ \A i \in 1..3 : pure.txs[i].kind = "int"
                        /\ pure.txs[i].moneyFlew # "false"
    /\ LET tx == pure.txs[3]
           before == ReplayTick(<<>>, SubSeq(pure.txs, 1, 2), 1)
       IN /\ tx.sourceId # tx.destId
          /\ BalanceOf(before, tx.sourceId) > 0
          /\ BalanceOf(before, tx.sourceId) < tx.amount
          /\ BalanceOf(pure.balances, tx.sourceId)
                = BalanceOf(before, tx.sourceId)
          /\ BalanceOf(pure.balances, tx.destId)
                = BalanceOf(before, tx.destId) + tx.amount

\* C30: getTokenDistribution returns exactly four tier records whenever a
\* wallet appears in a settled transfer of the replayed window, also when
\* the reconstructed total supply is zero, and the empty list only when no
\* wallet was seen.
C30_FourTiers ==
    pure.op = "getTokenDistribution"
    => LET txs == pure.txs
           \* transaction i is reached by the forEach and is applied
           Applied(i) ==
               /\ txs[i].kind = "int" /\ txs[i].moneyFlew # "false"
               /\ \A j \in 1..(i - 1) :
                     txs[j].kind = "int" \/ txs[j].moneyFlew = "false"
           seen == \E i \in DOMAIN txs : Applied(i)
       IN /\ ~pure.out.rejected
          /\ Len(pure.out.value) = IF seen THEN 4 ELSE 0

\* C26: the aggregate returned by aggregateByWallet conserves volume: the
\* outgoing totals of all wallets and the incoming totals of all wallets
\* both add up to the sum of the amounts of the counted transactions (a
\* self-transfer adds its amount to both totals of its wallet).
C26_VolumeConserved ==
    (pure.op = "aggregateByWallet" /\ ~pure.out.threw)
    => LET ws == pure.out.wallets
           txs == pure.txs
           RECURSIVE Outgoing(_), Incoming(_), Counted(_)
           Outgoing(i) ==
               IF i > Len(ws) THEN 0 ELSE ws[i].outgoing + Outgoing(i + 1)
           Incoming(i) ==
               IF i > Len(ws) THEN 0 ELSE ws[i].incoming + Incoming(i + 1)
           Counted(i) ==
               IF i > Len(txs) THEN 0
               ELSE (IF txs[i].moneyFlew = "false" \/ txs[i].kind # "int"
                     THEN 0 ELSE txs[i].amount) + Counted(i + 1)
       IN /\ Outgoing(1) = Incoming(1)
          /\ Outgoing(1) = Counted(1)
          /\ \A i \in DOMAIN txs :
                (/\ txs[i].sourceId = txs[i].destId
                 /\ txs[i].moneyFlew # "false" /\ txs[i].kind = "int")
                => LET w == ws[IndexOf(ws, txs[i].sourceId)]
                   IN w.outgoing >= txs[i].amount
                      /\ w.incoming >= txs[i].amount

\* a self-transfer of A, a transfer from A to B and a transfer that did not
\* settle: 700 went out and 700 came in
C26_Witness ==
    /\ pure.op = "aggregateByWallet" /\ ~pure.out.threw
    /\ Len(pure.txs) = 3
    /\ pure.txs[1] = Tx("A", "A", "int", 500, "true", 0)
    /\ pure.txs[2] = Tx("B", "A", "int", 1000, "false", 0)
    /\ pure.txs[3] = Tx("A", "B", "int", 200, "undefined", 0)
    /\ pure.out.wallets = <<WalletEntry("A", 700, 500),
                            WalletEntry("B", 0, 200)>>

\* C27: the alerts returned by one getRecentAlerts call have pairwise
\* distinct ids, for every transaction window.
C27_DistinctIds ==
    pure.op = "alerts"
    => \A i, j \in DOMAIN pure.out :
          i # j => pure.out[i].id # pure.out[j].id

\* C24: there is no timeout and no cancellation.  In every step that leaves
\* the transport call of the in-flight task uncompleted, whatever time has
\* passed, that task stays unsettled, no task is dispatched, the tasks
\* queued behind it keep their places and none of their callers receives a
\* result or an error; so they never do if the call never completes.
C24_HungCallStalls ==
    [][\A ch \in chains :
          (ch.phase = "fetch" /\ ch \in chains')
          => /\ calls'[ch.task].state = "running"
             /\ dispSeq' = dispSeq
             /\ Len(queue') >= Len(queue)
             /\ \A i \in 1..Len(queue) :
                   /\ queue'[i] = queue[i]
                   /\ calls'[queue[i]].state = "queued"
                   /\ calls'[queue[i]].startedAt = 0]_vars

\* a transport call has been in flight for more than 15 s and the two
\* requests queued behind it are still waiting
C24_Witness ==
    /\ \E ch \in chains :
          /\ ch.phase = "fetch"
          /\ now - calls[ch.task].startedAt >= CACHE_TTL
    /\ Len(queue) = 2
    /\ \A i \in 1..2 : calls[queue[i]].state = "queued"

\* C25: the cooldown after a 429 is spent inside the in-flight task.  The
\* timer is set for COOLDOWN after the 429 answer; until it has fired and the
\* task has thrown its error no task is dispatched and the queued tasks
\* stay queued, so that the next dispatch comes at least COOLDOWN after the
\* dispatch of the rate-limited task.
C25_CooldownHoldsQueue ==
    [][/\ \A ch \in chains' \ chains :
             ch.phase = "cooldown"
             => ch.until = now + COOLDOWN /\ calls'[ch.task].answer.status = 429
       /\ \A ch \in chains :
             ch.phase = "cooldown"
             => /\ dispSeq' = dispSeq
                /\ Len(queue') >= Len(queue)
                /\ \A i \in 1..Len(queue) :
                      queue'[i] = queue[i] /\ calls'[queue[i]].state = "queued"
                /\ ch \in chains' => calls'[ch.task].state = "running"
                /\ ch \notin chains'
                   => now >= ch.until /\ calls'[ch.task].error = "ratelimit"
       /\ \A i \in 1..(Len(dispSeq') - 1) :
             calls'[dispSeq'[i]].answer.status = 429
             => calls'[dispSeq'[i + 1]].startedAt
                  >= calls'[dispSeq'[i]].startedAt + COOLDOWN]_vars

\* a request was answered 429 while another waited in the queue; the waiting
\* one was dispatched when the cooldown had ended and the error was thrown
C25_Witness ==
    /\ Len(dispSeq) >= 2
    /\ calls[dispSeq[1]].answer.status = 429
    /\ calls[dispSeq[1]].error = "ratelimit"
    /\ ~calls[dispSeq[2]].armed
    /\ calls[dispSeq[2]].startedAt >= calls[dispSeq[1]].startedAt + COOLDOWN

\* C23: while the current tick is unknown or zero no dependent work is
\* started.  As long as tick-info has not been answered, and when it failed
\* or reported tick 0, no aggregate accessor and no fetchTransactions of the
\* table has requested the transactions of a tick, and an invocation that has
\* ended has ended with the empty result.
C23_NoWorkWithoutTick ==
    (/\ job.fn \in AggregateAccessors \cup {"fetchTransactions"}
     /\ \/ job.pc = "tickinfo"
        \/ job.info = "failed"
        \/ job.info = "ok" /\ job.T = 0)
    => /\ reqs = <<>>
       /\ job.pc \in {"tickinfo", "done"}
       /\ job.pc = "done"
          => Outcome(job, reqs) = [rejected |-> FALSE, value |-> <<>>]

\* getWhaleActivity was told that the current tick is 0 and has returned
\* without a request
C23_Witness ==
    /\ job.fn = "getWhaleActivity" /\ job.n = EXAMPLE_WINDOW
    /\ job.pc = "done" /\ job.info = "ok" /\ job.T = 0
    /\ reqs = <<>>

\* C28: getHolderGrowth terminates for every ticksBack >= 0 and every
\* sampleInterval >= 0 when every request is settled: it requests the ticks
\* startTick, startTick + sampleInterval, ... up to currentTick, at most
\* floor(ticksBack / sampleInterval) + 1 of them, and then returns.
C28_HolderGrowthTerminates ==
    /\ []((job.fn = "getHolderGrowth" /\ job.info = "ok" /\ job.T # 0)
           => /\ \A i \in DOMAIN reqs :
                    /\ reqs[i] = Max(0, job.T - job.n) + (i - 1) * job.arg
                    /\ reqs[i] <= job.T
              /\ job.arg > 0 => Len(reqs) <= job.n \div job.arg + 1)
    /\ ((job.fn = "getHolderGrowth" /\ job.pc # "done") ~> (job.pc = "done"))

\* C29: for every current tick T >= 1 each tick requested by
\* getWhaleActivity, getRecentAlerts, getTokenTradingHistory and the
\* fetchTransactions of RecentTransactionsTable is >= 0.
C29_NoNegativeTick ==
    (/\ job.fn \in {"getWhaleActivity", "getRecentAlerts",
                    "getTokenTradingHistory", "fetchTransactions"}
     /\ job.info = "ok" /\ job.T >= 1)
    => \A i \in DOMAIN reqs : reqs[i] >= 0
====
